---- MODULE Spec2Model ----
(***************************************************************************)
(* Cart store of the storefront, in its three revisions:                   *)
(*   "layered"   layers/cart/app/stores/cart/useCartStore.ts               *)
(*   "feature"   the feature store without validation (part_014, line 29)  *)
(*   "validated" the feature store with Zod validation (part_014, l. 191)  *)
(* A run is a run of one of the three: variant names it and never changes. *)
(*                                                                         *)
(* Numbers: a quantity is a JavaScript number and may be fractional.  The  *)
(* model keeps quantities, and the subtotals computed from them, in units  *)
(* of 1/Scale: the quantity 1 is One, the quantity 1/2 is 1 when Scale=2.  *)
(* Prices are whole numbers of cents.                                      *)
(*                                                                         *)
(* calc holds one evaluation of a pure function (the derived amounts tax    *)
(* and total over a subtotal, the validation of a price range); the cart   *)
(* runs leave it idle.                                                     *)
(*                                                                         *)
(* Products store (catalog): products, loading, error, currentFilter,      *)
(* currentSort, and calls, the fetchProducts calls made so far.  Its runs  *)
(* are runs of the feature store (calculations.ts, line 317) or of the     *)
(* layered one (layers/products/app/stores/products/useProductsStore.ts).  *)
(*                                                                         *)
(* twin is the list of a layered cart store run side by side with the      *)
(* store of the run.                                                       *)
(***************************************************************************)
EXTENDS Integers, Sequences, FiniteSets, TLC

VARIABLES variant, items, storage, available, last, threw, calc, twin,
          products, loading, error, currentFilter, currentSort, calls

catalogVars == <<products, loading, error, currentFilter, currentSort, calls>>
cartVars == <<items, storage, available, threw>>

vars == <<variant, items, storage, available, last, threw, calc, twin, catalogVars>>

\* ---------------------------------------------------------------- bounds
Scale == 2
MaxQty == 2
\* largest subtotal, in cents, the derived amounts are evaluated on
MaxSubtotal == 2000
\* number of fetchProducts calls of a run
MaxCalls == 2
\* largest whole bound of the price ranges put to validation
MaxBound == 3

One == Scale
Ids == {"p1", "p2"}
Prices == {0, 1, 2}
Products == [id : Ids, price : Prices]
\* quantities passed to updateQuantity: negative (whole and fractional), zero,
\* a fraction below 1, 1, a fraction above 1, and the largest whole quantity
Quantities == {0 - One, 0 - 1, 0, 1, One, One + 1, MaxQty * One}
QtyCap == MaxQty * Scale

Variants == {"layered", "feature", "validated"}

\* the revisions that keep a subtotal on each item
HasSubtotal(v) == v # "layered"
\* the revision whose actions validate their arguments
ValidatesInput(v) == v = "validated"
\* the revisions that read the cart back through getValidatedItem
ValidatesStorage(v) == v # "feature"

\* ------------------------------------------------------------ schemas
IsInteger(n) == n % Scale = 0

ProductSchema(p) == p.price > 0

\* PriceRangeSchema with min <= max as its refinement
PriceRangeSchema_AllowEqual(range) ==
    /\ IsInteger(range.min) /\ range.min >= 0
    /\ IsInteger(range.max) /\ range.max > 0
    /\ range.min <= range.max

\* PriceRangeSchema: min a non-negative integer, max a positive integer,
\* refined by min < max; min and max in units of 1/Scale
PriceRangeSchema(range) ==
    /\ IsInteger(range.min) /\ range.min >= 0
    /\ IsInteger(range.max) /\ range.max > 0
    /\ range.min < range.max

\* CartItemSchema of the feature store: quantity a positive integer,
\* subtotal a non-negative integer equal to price * quantity
CartItemSchema(it) ==
    /\ ProductSchema(it.product)
    /\ IsInteger(it.quantity) /\ it.quantity > 0
    /\ IsInteger(it.subtotal) /\ it.subtotal >= 0
    /\ it.subtotal = it.product.price * it.quantity

\* CartItemSchema of the cart layer: product and quantity only
LayerCartItemSchema(it) ==
    /\ ProductSchema(it.product)
    /\ IsInteger(it.quantity) /\ it.quantity > 0

\* --------------------------------------------------------- calculations
calculateItemSubtotal(price, quantity) == price * quantity

\* TAX_RATE = 0.1, kept as its inverse
TAX_RATE_INV == 10
INITIAL_SUM == 0

\* Array.prototype.reduce((sum, x) => sum + x, sum) over a list of numbers
RECURSIVE reduce(_, _)
reduce(nums, sum) ==
    IF nums = <<>> THEN sum ELSE reduce(Tail(nums), sum + Head(nums))

\* calculateSubtotal of the feature store: the sum of the stored subtotals
calculateSubtotal(list) ==
    reduce([k \in 1..Len(list) |-> list[k].subtotal], INITIAL_SUM)

\* calculateSubtotal of the cart layer, whose items keep no subtotal: the sum
\* of price * quantity
layerCalculateSubtotal(list) ==
    reduce([k \in 1..Len(list) |-> list[k].product.price * list[k].quantity],
           INITIAL_SUM)

\* Math.round(num / den) for den > 0: the nearest integer, a half goes up
MathRound(num, den) == (2 * num + den) \div (2 * den)

\* calculateTax with Math.floor in the place of Math.round
calculateTax_Floor(subtotal) ==
    One * (subtotal \div (TAX_RATE_INV * Scale))

\* Math.round(subtotal * TAX_RATE); subtotal and the result in units of
\* 1/Scale.  For the amounts of the model the double product subtotal * 0.1
\* lies on the same side of every half as the exact tenth (0.1 as a double
\* is above 1/10, and a half is a double), so exact arithmetic decides the
\* same way.
calculateTax(subtotal) ==
    One * MathRound(subtotal, TAX_RATE_INV * Scale)

calculateTotal(subtotal, tax) == subtotal + tax

\* calculateItemCount that counts the entries of the list
calculateItemCount_Length(list) == One * Len(list)

calculateItemCount(list) ==
    reduce([k \in 1..Len(list) |-> list[k].quantity], INITIAL_SUM)

\* -------------------------------------------------------------- helpers
\* Array.prototype.findIndex on the product id; 0 stands for -1
findIndex(list, id) ==
    IF \E i \in 1..Len(list) : list[i].product.id = id
    THEN CHOOSE i \in 1..Len(list) :
            /\ list[i].product.id = id
            /\ \A j \in 1..(i - 1) : list[j].product.id # id
    ELSE 0

\* Array.prototype.splice(index, 1)
splice(list, i) ==
    [k \in 1..(Len(list) - 1) |-> IF k < i THEN list[k] ELSE list[k + 1]]

\* result of one call: the list, whether the call threw, and whether the
\* deep watcher on items was triggered
Result(list, t, n) == [items |-> list, threw |-> t, notify |-> n]

\* ---------------------------------------------------------- store actions
\* the object literal addItem pushes: { product, quantity: 1, subtotal: price }
newItem(v, product) ==
    IF HasSubtotal(v)
    THEN [product |-> product, quantity |-> One, subtotal |-> product.price * One]
    ELSE [product |-> product, quantity |-> One]

\* item.quantity = quantity, and item.subtotal = calculateItemSubtotal(price,
\* quantity) in the stores that keep one
setQuantity(v, item, price, quantity) ==
    IF HasSubtotal(v)
    THEN [item EXCEPT !.quantity = quantity,
                      !.subtotal = calculateItemSubtotal(price, quantity)]
    ELSE [item EXCEPT !.quantity = quantity]

\* addItem without the lookup of an existing item: always pushes
addItem_AlwaysPush(v, list, product) ==
    IF ValidatesInput(v) /\ ~ProductSchema(product)
    THEN Result(list, TRUE, FALSE)
    ELSE Result(Append(list, newItem(v, product)), FALSE, TRUE)

\* addItem that resets an existing item to quantity 1 instead of adding 1
addItem_ResetQuantity(v, list, product) ==
    IF ValidatesInput(v) /\ ~ProductSchema(product)
    THEN Result(list, TRUE, FALSE)
    ELSE LET i == findIndex(list, product.id) IN
         IF i # 0
         THEN Result([list EXCEPT ![i] = setQuantity(v, @, product.price, One)],
                     FALSE, TRUE)
         ELSE Result(Append(list, newItem(v, product)), FALSE, TRUE)

\* addItem that puts a new item at the front of the list (unshift)
addItem_Unshift(v, list, product) ==
    IF ValidatesInput(v) /\ ~ProductSchema(product)
    THEN Result(list, TRUE, FALSE)
    ELSE LET i == findIndex(list, product.id) IN
         IF i # 0
         THEN Result([list EXCEPT ![i] =
                         setQuantity(v, @, product.price, list[i].quantity + One)],
                     FALSE, TRUE)
         ELSE Result(<<newItem(v, product)>> \o list, FALSE, TRUE)

\* addItem that refreshes an existing item's product from its argument
addItem_ReplaceProduct(v, list, product) ==
    IF ValidatesInput(v) /\ ~ProductSchema(product)
    THEN Result(list, TRUE, FALSE)
    ELSE LET i == findIndex(list, product.id) IN
         IF i # 0
         THEN Result([list EXCEPT ![i] =
                         [setQuantity(v, @, product.price, list[i].quantity + One)
                             EXCEPT !.product = product]],
                     FALSE, TRUE)
         ELSE Result(Append(list, newItem(v, product)), FALSE, TRUE)

addItem(v, list, product) ==
    IF ValidatesInput(v) /\ ~ProductSchema(product)
    THEN Result(list, TRUE, FALSE)
    ELSE LET i == findIndex(list, product.id) IN
         IF i # 0
         THEN Result([list EXCEPT ![i] =
                         setQuantity(v, @, product.price, list[i].quantity + One)],
                     FALSE, TRUE)
         ELSE Result(Append(list, newItem(v, product)), FALSE, TRUE)

\* removeItem without the index !== -1 test: splice(-1, 1) removes the last
\* element
removeItem_NoGuard(v, list, productId) ==
    IF v = "layered"
    THEN Result(SelectSeq(list, LAMBDA it : it.product.id # productId), FALSE, TRUE)
    ELSE LET index == findIndex(list, productId) IN
         IF index # 0
         THEN Result(splice(list, index), FALSE, TRUE)
         ELSE IF list # <<>>
              THEN Result(splice(list, Len(list)), FALSE, TRUE)
              ELSE Result(list, FALSE, FALSE)

\* removeItem whose filter of the layered store is inverted: it keeps the
\* entries of the product and drops the others
removeItem_KeepOnly(v, list, productId) ==
    IF v = "layered"
    THEN Result(SelectSeq(list, LAMBDA it : it.product.id = productId), FALSE, TRUE)
    ELSE LET index == findIndex(list, productId) IN
         IF index # 0
         THEN Result(splice(list, index), FALSE, TRUE)
         ELSE Result(list, FALSE, FALSE)

removeItem(v, list, productId) ==
    IF v = "layered"
    THEN Result(SelectSeq(list, LAMBDA it : it.product.id # productId), FALSE, TRUE)
    ELSE LET index == findIndex(list, productId) IN
         IF index # 0
         THEN Result(splice(list, index), FALSE, TRUE)
         ELSE Result(list, FALSE, FALSE)

\* updateQuantity under a watcher without { deep: true }: a change made in
\* place on an item is not seen
updateQuantity_ShallowWatch(v, list, productId, quantity) ==
    IF ValidatesInput(v) /\ ~IsInteger(quantity)
    THEN Result(list, TRUE, FALSE)
    ELSE IF quantity <= 0
    THEN removeItem(v, list, productId)
    ELSE LET i == findIndex(list, productId) IN
         IF i # 0
         THEN Result([list EXCEPT ![i] =
                         setQuantity(v, @, list[i].product.price, quantity)],
                     FALSE, FALSE)
         ELSE Result(list, FALSE, FALSE)

\* updateQuantity that removes on quantity < 0 only: the quantity 0 is stored
updateQuantity_NegativeOnly(v, list, productId, quantity) ==
    IF ValidatesInput(v) /\ ~IsInteger(quantity)
    THEN Result(list, TRUE, FALSE)
    ELSE IF quantity < 0
    THEN removeItem(v, list, productId)
    ELSE LET i == findIndex(list, productId) IN
         IF i # 0
         THEN LET new == [list EXCEPT ![i] =
                             setQuantity(v, @, list[i].product.price, quantity)]
              IN Result(new, FALSE, new # list)
         ELSE Result(list, FALSE, FALSE)

updateQuantity(v, list, productId, quantity) ==
    IF ValidatesInput(v) /\ ~IsInteger(quantity)
    THEN Result(list, TRUE, FALSE)
    ELSE IF quantity <= 0
    THEN removeItem(v, list, productId)
    ELSE LET i == findIndex(list, productId) IN
         IF i # 0
         THEN LET new == [list EXCEPT ![i] =
                             setQuantity(v, @, list[i].product.price, quantity)]
              IN Result(new, FALSE, new # list)
         ELSE Result(list, FALSE, FALSE)

\* incrementItem that computes quantity + 1 and does not assign it (layered)
incrementItem_NoWrite(v, list, productId) ==
    LET i == findIndex(list, productId) IN
    IF i = 0 THEN Result(list, FALSE, FALSE)
    ELSE IF v = "layered"
    THEN Result(list, FALSE, FALSE)
    ELSE updateQuantity(v, list, productId, list[i].quantity + One)

incrementItem(v, list, productId) ==
    LET i == findIndex(list, productId) IN
    IF i = 0 THEN Result(list, FALSE, FALSE)
    ELSE IF v = "layered"
    THEN Result([list EXCEPT ![i] = [@ EXCEPT !.quantity = @ + One]], FALSE, TRUE)
    ELSE updateQuantity(v, list, productId, list[i].quantity + One)

\* decrementItem that removes below quantity 1 only (layered): 1 becomes 0
decrementItem_BelowOne(v, list, productId) ==
    LET i == findIndex(list, productId) IN
    IF i = 0 THEN Result(list, FALSE, FALSE)
    ELSE IF v = "layered"
    THEN IF list[i].quantity < One
         THEN removeItem(v, list, productId)
         ELSE Result([list EXCEPT ![i] = [@ EXCEPT !.quantity = @ - One]], FALSE, TRUE)
    ELSE updateQuantity(v, list, productId, list[i].quantity - One)

decrementItem(v, list, productId) ==
    LET i == findIndex(list, productId) IN
    IF i = 0 THEN Result(list, FALSE, FALSE)
    ELSE IF v = "layered"
    THEN IF list[i].quantity <= One
         THEN removeItem(v, list, productId)
         ELSE Result([list EXCEPT ![i] = [@ EXCEPT !.quantity = @ - One]], FALSE, TRUE)
    ELSE updateQuantity(v, list, productId, list[i].quantity - One)

\* clearCart that drops the last entry only
clearCart_Pop(v, list) ==
    Result(SubSeq(list, 1, Len(list) - 1), FALSE, list # <<>>)

clearCart(v, list) == Result(<<>>, FALSE, TRUE)

\* -------------------------------------------------------------- getters
itemCount(list) == calculateItemCount(list)
subtotal(v, list) ==
    IF HasSubtotal(v) THEN calculateSubtotal(list) ELSE layerCalculateSubtotal(list)
tax(v, list) == calculateTax(subtotal(v, list))
total(v, list) == calculateTotal(subtotal(v, list), tax(v, list))
isEmpty(list) == Len(list) = 0

\* itemInCart that returns the first item of the list, whatever the id
itemInCart_First(list, productId) ==
    IF list # <<>> THEN [found |-> TRUE, item |-> list[1]] ELSE [found |-> FALSE]

\* itemInCart(productId): items.find(...), undefined (found = FALSE) if none
itemInCart(list, productId) ==
    LET i == findIndex(list, productId) IN
    IF i # 0 THEN [found |-> TRUE, item |-> list[i]] ELSE [found |-> FALSE]

\* -------------------------------------------------------------- storage
\* value kept under STORAGE_KEY: nothing, a string JSON.parse rejects, or
\* the JSON text of an array, one tuple per element
NoValue == [kind |-> "none"]
Garbage == [kind |-> "garbage"]
JsonArray(elems) == [kind |-> "array", elems |-> elems]

JSONstringify(list) ==
    JsonArray([k \in 1..Len(list) |->
        IF "subtotal" \in DOMAIN list[k]
        THEN <<list[k].product.id, list[k].product.price, list[k].quantity, list[k].subtotal>>
        ELSE <<list[k].product.id, list[k].product.price, list[k].quantity>>])

JSONparse(elems) ==
    [k \in 1..Len(elems) |->
        IF Len(elems[k]) = 4
        THEN [product |-> [id |-> elems[k][1], price |-> elems[k][2]],
              quantity |-> elems[k][3], subtotal |-> elems[k][4]]
        ELSE [product |-> [id |-> elems[k][1], price |-> elems[k][2]],
              quantity |-> elems[k][3]]]

\* setItem without the isLocalStorageAvailable guard and the try/catch
setItem_NoGuard(avail, old, list) == JSONstringify(list)

\* setItem: a no-op when localStorage is not available or the write throws;
\* avail = FALSE stands for both
setItem(avail, old, list) == IF avail THEN JSONstringify(list) ELSE old

\* getItem: null (here NoValue's list, marked by found = FALSE) when storage
\* is unavailable, the key is absent or the text does not parse
getItem(avail, stored) ==
    IF avail /\ stored.kind = "array"
    THEN [found |-> TRUE, items |-> JSONparse(stored.elems)]
    ELSE [found |-> FALSE, items |-> <<>>]

\* z.array(schema).safeParse of the layered schema strips the keys the
\* schema does not name
StripSubtotal(list) ==
    [k \in 1..Len(list) |-> [product |-> list[k].product, quantity |-> list[k].quantity]]

\* getValidatedItem(key, z.array(CartItemSchema), onError) of utils/storage:
\* "returns validated data or null if invalid"; the stored cart is "cleared
\* if validation fails"
getValidatedItem(v, avail, stored) ==
    LET raw == getItem(avail, stored) IN
    IF ~raw.found THEN [found |-> FALSE, items |-> <<>>, storage |-> stored]
    ELSE IF v = "layered"
    THEN IF \A k \in 1..Len(raw.items) : LayerCartItemSchema(raw.items[k])
         THEN [found |-> TRUE, items |-> StripSubtotal(raw.items), storage |-> stored]
         ELSE [found |-> FALSE, items |-> <<>>, storage |-> NoValue]
    ELSE IF \A k \in 1..Len(raw.items) :
                /\ "subtotal" \in DOMAIN raw.items[k]
                /\ CartItemSchema(raw.items[k])
         THEN [found |-> TRUE, items |-> raw.items, storage |-> stored]
         ELSE [found |-> FALSE, items |-> <<>>, storage |-> NoValue]

\* store initialisation: items = [] and then the stored cart, if any
loadFromStorage(v, avail, stored) ==
    IF ValidatesStorage(v)
    THEN getValidatedItem(v, avail, stored)
    ELSE LET raw == getItem(avail, stored) IN
         [found |-> raw.found, items |-> raw.items, storage |-> stored]

\* -------------------------------------------------------------- catalog
\* text is a sequence of characters
Lower(c) == CASE c = "A" -> "a" [] c = "B" -> "b" [] c = "Z" -> "z" [] OTHER -> c
toLowerCase(text) == [i \in 1..Len(text) |-> Lower(text[i])]
includes(text, part) ==
    \E i \in 0..(Len(text) - Len(part)) : SubSeq(text, i + 1, i + Len(part)) = part

\* UTF-16 code units of the characters in use
Code(c) == CASE c = "A" -> 65 [] c = "B" -> 66 [] c = "Z" -> 90
             [] c = "a" -> 97 [] c = "b" -> 98 [] c = "d" -> 100
             [] c = "e" -> 101 [] c = "n" -> 110 [] c = "z" -> 122

\* a catalog entry; rating is optional and kept in tenths
Zed == [id |-> "1", name |-> <<"Z", "e", "d">>, description |-> <<"a", "b">>,
        price |-> 5000, category |-> "electronics", stock |-> 3, rating |-> 45]
Ann == [id |-> "2", name |-> <<"A", "n", "n">>, description |-> <<"B", "a", "d">>,
        price |-> 1000, category |-> "books", stock |-> 0]
Ban == [id |-> "3", name |-> <<"b", "a", "n">>, description |-> <<"z">>,
        price |-> 6000, category |-> "books", stock |-> 1, rating |-> 30]
Bed == [id |-> "4", name |-> <<"B", "e", "d">>, description |-> <<"e">>,
        price |-> 1000, category |-> "home", stock |-> 2, rating |-> 30]

MOCK_PRODUCTS == <<Zed, Ann, Ban, Bed>>
\* the catalogs a run may hold: the one of the filter example, and MOCK_PRODUCTS
Catalogs == {<<Ann, Zed>>, MOCK_PRODUCTS}

DefaultFilter == [category |-> "all", inStock |-> FALSE]
DefaultSort == "name-asc"
ProductSort == {"name-asc", "name-desc", "price-asc", "price-desc", "rating-desc"}

\* the filters the UI sets
Filters ==
    { DefaultFilter,
      [category |-> "books"],
      [priceRange |-> [min |-> 2000, max |-> 6000]],
      [minRating |-> 30],
      [inStock |-> TRUE],
      [search |-> <<"B">>],
      [search |-> <<"b", "a">>, category |-> "books", inStock |-> TRUE],
      [search |-> <<>>, category |-> "all", priceRange |-> [min |-> 0, max |-> 1000],
       minRating |-> 0, inStock |-> FALSE] }

Has(f, field) == field \in DOMAIN f

\* the criteria of filterProducts, one per field of the filter
matchesSearch(p, f) ==
    (Has(f, "search") /\ f.search # <<>>) =>
        \/ includes(toLowerCase(p.name), toLowerCase(f.search))
        \/ includes(toLowerCase(p.description), toLowerCase(f.search))
matchesCategory(p, f) ==
    (Has(f, "category") /\ f.category # "all") => p.category = f.category
matchesPriceRange(p, f) ==
    Has(f, "priceRange") => (p.price >= f.priceRange.min /\ p.price <= f.priceRange.max)
matchesMinRating(p, f) ==
    Has(f, "minRating") => (Has(p, "rating") /\ p.rating >= f.minRating)
matchesInStock(p, f) ==
    (Has(f, "inStock") /\ f.inStock) => p.stock > 0

\* filterProducts(products, filter): Array.prototype.filter, a new array
filterProducts(list, f) ==
    SelectSeq(list, LAMBDA p :
        /\ matchesSearch(p, f)
        /\ matchesCategory(p, f)
        /\ matchesPriceRange(p, f)
        /\ matchesMinRating(p, f)
        /\ matchesInStock(p, f))

\* ordinal comparison of two texts: TRUE when a sorts before b
RECURSIVE textBefore(_, _)
textBefore(a, b) ==
    IF b = <<>> THEN FALSE
    ELSE IF a = <<>> THEN TRUE
    ELSE IF Code(Head(a)) # Code(Head(b)) THEN Code(Head(a)) < Code(Head(b))
    ELSE textBefore(Tail(a), Tail(b))

\* an absent rating sorts as the lowest
ratingOf(p) == IF Has(p, "rating") THEN p.rating ELSE 0

\* the comparator of a sort: TRUE when a must come before b
before(sort, a, b) ==
    CASE sort = "name-asc" -> textBefore(a.name, b.name)
      [] sort = "name-desc" -> textBefore(b.name, a.name)
      [] sort = "price-asc" -> a.price < b.price
      [] sort = "price-desc" -> a.price > b.price
      [] sort = "rating-desc" -> ratingOf(a) > ratingOf(b)

\* stable insertion of p into a sorted list
RECURSIVE insert(_, _, _)
insert(sort, sorted, p) ==
    IF sorted = <<>> THEN <<p>>
    ELSE IF before(sort, p, Head(sorted)) THEN <<p>> \o sorted
    ELSE <<Head(sorted)>> \o insert(sort, Tail(sorted), p)

\* sortProducts(products, sort): a sorted copy, ties in their prior order
RECURSIVE sortProducts(_, _)
sortProducts(list, sort) ==
    IF list = <<>> THEN <<>>
    ELSE insert(sort, sortProducts(SubSeq(list, 1, Len(list) - 1), sort),
                list[Len(list)])

\* filteredProducts that sorts the whole catalog and never filters
filteredProducts_NoFilter(list, f, sort) == sortProducts(list, sort)

\* filteredProducts that filters by the default filter, not the current one
filteredProducts_DefaultFilter(list, f, sort) ==
    LET result == filterProducts(list, DefaultFilter) IN sortProducts(result, sort)

filteredProducts(list, f, sort) ==
    LET result == filterProducts(list, f) IN sortProducts(result, sort)

Null == "null"
FetchFailed == "Failed to fetch products"
CallIds == 1..MaxCalls

\* ---------------------------------------------------------------- state
Call(op, id, price, qty) == [op |-> op, id |-> id, price |-> price, qty |-> qty]

Idle == [stage |-> "idle"]

\* the products store as constructed, before any call on it
CatalogIdle ==
    /\ products = MOCK_PRODUCTS
    /\ loading = FALSE
    /\ error = Null
    /\ currentFilter = DefaultFilter
    /\ currentSort = DefaultSort
    /\ calls = [c \in CallIds |-> "idle"]

Init ==
    /\ variant \in Variants
    /\ items = <<>>
    /\ storage = NoValue
    /\ available \in BOOLEAN
    /\ last = Call("init", "", 0, 0)
    /\ threw = FALSE
    /\ calc = Idle
    /\ twin = <<>>
    /\ CatalogIdle

\* one call on the store, followed by the watcher that saves the list
Apply(res, call) ==
    /\ items' = res.items
    /\ threw' = res.threw
    /\ storage' = IF res.notify THEN setItem(available, storage, res.items) ELSE storage
    /\ last' = call
    /\ UNCHANGED <<variant, available, calc, twin, catalogVars>>

Below(list, id) ==
    \A k \in 1..Len(list) : list[k].product.id = id => list[k].quantity + One <= QtyCap

AddItem ==
    \E p \in Products :
        /\ Below(items, p.id)
        /\ Apply(addItem(variant, items, p), Call("addItem", p.id, p.price, 0))

RemoveItem ==
    \E id \in Ids :
        Apply(removeItem(variant, items, id), Call("removeItem", id, 0, 0))

UpdateQuantity ==
    \E id \in Ids, q \in Quantities :
        Apply(updateQuantity(variant, items, id, q), Call("updateQuantity", id, 0, q))

IncrementItem ==
    \E id \in Ids :
        /\ Below(items, id)
        /\ Apply(incrementItem(variant, items, id), Call("incrementItem", id, 0, 0))

DecrementItem ==
    \E id \in Ids :
        Apply(decrementItem(variant, items, id), Call("decrementItem", id, 0, 0))

ClearCart ==
    Apply(clearCart(variant, items), Call("clearCart", "", 0, 0))

\* page reload: the store is constructed again from its storage
Reload ==
    LET loaded == loadFromStorage(variant, available, storage) IN
    /\ items' = loaded.items
    /\ storage' = loaded.storage
    /\ threw' = FALSE
    /\ last' = Call("reload", "", 0, 0)
    /\ UNCHANGED <<variant, available, calc, twin, catalogVars>>

\* values the storage key may hold when the page is opened
ValidP1 == <<"p1", 1, One, One>>
ValidP2 == <<"p2", 2, One, 2 * One>>
ZeroQuantity == <<"p1", 1, 0, 0>>
WrongSubtotal == <<"p2", 2, One, One>>
HalfQuantity == <<"p2", 1, 1, 1>>

StoredLists ==
    { <<>>, <<ValidP1, ValidP2>>, <<ValidP1, ValidP1>>,
      <<ZeroQuantity>>, <<ValidP1, WrongSubtotal>>, <<HalfQuantity>> }

StoredValues == {NoValue, Garbage} \cup {JsonArray(l) : l \in StoredLists}

\* the store constructed over whatever the storage key holds
InitStored ==
    /\ variant \in Variants
    /\ available \in BOOLEAN
    /\ \E s \in StoredValues :
          /\ items = loadFromStorage(variant, available, s).items
          /\ storage = loadFromStorage(variant, available, s).storage
    /\ last = Call("init", "", 0, 0)
    /\ threw = FALSE
    /\ calc = Idle
    /\ twin = <<>>
    /\ CatalogIdle

Next ==
    \/ AddItem
    \/ RemoveItem
    \/ UpdateQuantity
    \/ IncrementItem
    \/ DecrementItem
    \/ ClearCart
    \/ Reload

Spec == Init /\ [][Next]_vars

SpecStored == InitStored /\ [][Next]_vars

\* ------------------------------------------------------ derived amounts
\* the computed chain subtotal -> tax -> total, evaluated on every whole
\* subtotal up to MaxSubtotal cents
InitTax ==
    /\ variant = "layered"
    /\ items = <<>>
    /\ storage = NoValue
    /\ available = TRUE
    /\ last = Call("init", "", 0, 0)
    /\ threw = FALSE
    /\ \E n \in 0..MaxSubtotal : calc = [stage |-> "subtotal", subtotal |-> n * One]
    /\ twin = <<>>
    /\ CatalogIdle

\* tax = computed(() => calculateTax(subtotal.value))
ComputeTax ==
    /\ calc.stage = "subtotal"
    /\ calc' = [stage |-> "tax", subtotal |-> calc.subtotal,
                tax |-> calculateTax(calc.subtotal)]
    /\ UNCHANGED <<variant, cartVars, last, twin, catalogVars>>

\* total = computed(() => calculateTotal(subtotal.value, tax.value))
ComputeTotal ==
    /\ calc.stage = "tax"
    /\ calc' = [stage |-> "total", subtotal |-> calc.subtotal, tax |-> calc.tax,
                total |-> calculateTotal(calc.subtotal, calc.tax)]
    /\ UNCHANGED <<variant, cartVars, last, twin, catalogVars>>

NextTax == ComputeTax \/ ComputeTotal

SpecTax == InitTax /\ [][NextTax]_vars

\* ------------------------------------------------------- side by side
\* the store of the run (the feature store, either revision) and a layered
\* store (twin), both from the empty cart, given the same calls: valid
\* products and integer quantities
InitTwin ==
    /\ variant \in {"feature", "validated"}
    /\ items = <<>>
    /\ twin = <<>>
    /\ storage = NoValue
    /\ available = TRUE
    /\ last = Call("init", "", 0, 0)
    /\ threw = FALSE
    /\ calc = Idle
    /\ CatalogIdle

ApplyBoth(res, layered, call) ==
    /\ items' = res.items
    /\ twin' = layered.items
    /\ threw' = (res.threw \/ layered.threw)
    /\ storage' = IF res.notify THEN setItem(available, storage, res.items) ELSE storage
    /\ last' = call
    /\ UNCHANGED <<variant, available, calc, catalogVars>>

BothAddItem ==
    \E p \in Products :
        /\ ProductSchema(p)
        /\ Below(items, p.id) /\ Below(twin, p.id)
        /\ ApplyBoth(addItem(variant, items, p), addItem("layered", twin, p),
                     Call("addItem", p.id, p.price, 0))

BothRemoveItem ==
    \E id \in Ids :
        ApplyBoth(removeItem(variant, items, id), removeItem("layered", twin, id),
                  Call("removeItem", id, 0, 0))

BothUpdateQuantity ==
    \E id \in Ids, q \in Quantities :
        /\ IsInteger(q)
        /\ ApplyBoth(updateQuantity(variant, items, id, q),
                     updateQuantity("layered", twin, id, q),
                     Call("updateQuantity", id, 0, q))

BothIncrementItem ==
    \E id \in Ids :
        /\ Below(items, id) /\ Below(twin, id)
        /\ ApplyBoth(incrementItem(variant, items, id), incrementItem("layered", twin, id),
                     Call("incrementItem", id, 0, 0))

BothDecrementItem ==
    \E id \in Ids :
        ApplyBoth(decrementItem(variant, items, id), decrementItem("layered", twin, id),
                  Call("decrementItem", id, 0, 0))

BothClearCart ==
    ApplyBoth(clearCart(variant, items), clearCart("layered", twin),
              Call("clearCart", "", 0, 0))

NextTwin ==
    \/ BothAddItem
    \/ BothRemoveItem
    \/ BothUpdateQuantity
    \/ BothIncrementItem
    \/ BothDecrementItem
    \/ BothClearCart

SpecTwin == InitTwin /\ [][NextTwin]_vars

\* ------------------------------------------------ price range validation
\* PriceRangeSchema.safeParse on every pair of bounds from -1 to MaxBound,
\* fractions included
RangeValues == (0 - One)..(MaxBound * One)

InitRange ==
    /\ variant = "layered"
    /\ items = <<>>
    /\ storage = NoValue
    /\ available = TRUE
    /\ last = Call("init", "", 0, 0)
    /\ threw = FALSE
    /\ \E a, b \in RangeValues : calc = [stage |-> "range", min |-> a, max |-> b]
    /\ twin = <<>>
    /\ CatalogIdle

safeParse ==
    /\ calc.stage = "range"
    /\ calc' = [stage |-> "parsed", min |-> calc.min, max |-> calc.max,
                success |-> PriceRangeSchema([min |-> calc.min, max |-> calc.max])]
    /\ UNCHANGED <<variant, cartVars, last, twin, catalogVars>>

NextRange == safeParse

SpecRange == InitRange /\ [][NextRange]_vars

\* -------------------------------------------------------- products store
\* the cart of a run of the products store: empty and untouched
CartIdle ==
    /\ items = <<>>
    /\ storage = NoValue
    /\ available = TRUE
    /\ threw = FALSE
    /\ calc = Idle
    /\ twin = <<>>

InitCatalog ==
    /\ variant \in {"feature", "layered"}
    /\ CartIdle
    /\ products \in Catalogs
    /\ loading = FALSE
    /\ error = Null
    /\ currentFilter = DefaultFilter
    /\ currentSort = DefaultSort
    /\ calls = [c \in CallIds |-> "idle"]
    /\ last = Call("init", "", 0, 0)

CatalogFrame == UNCHANGED <<variant, cartVars, calc, twin>>

SetFilter ==
    \E f \in Filters :
        /\ currentFilter' = f
        /\ last' = Call("setFilter", "", 0, 0)
        /\ UNCHANGED <<products, loading, error, currentSort, calls>>
        /\ CatalogFrame

SetSort ==
    \E sort \in ProductSort :
        /\ currentSort' = sort
        /\ last' = Call("setSort", "", 0, 0)
        /\ UNCHANGED <<products, loading, error, currentFilter, calls>>
        /\ CatalogFrame

\* resetFilter that restores the filter and keeps the sort
ResetFilter_KeepSort ==
    /\ currentFilter' = [category |-> "all", inStock |-> FALSE]
    /\ last' = Call("resetFilter", "", 0, 0)
    /\ UNCHANGED <<products, loading, error, currentSort, calls>>
    /\ CatalogFrame

ResetFilter ==
    /\ currentFilter' = [category |-> "all", inStock |-> FALSE]
    /\ currentSort' = "name-asc"
    /\ last' = Call("resetFilter", "", 0, 0)
    /\ UNCHANGED <<products, loading, error, calls>>
    /\ CatalogFrame

\* fetchProducts up to its await: loading = true, error = null
FetchStart(c) ==
    /\ calls[c] = "idle"
    /\ loading' = TRUE
    /\ error' = Null
    /\ calls' = [calls EXCEPT ![c] = "pending"]
    /\ last' = Call("fetchProducts", "", 0, c)
    /\ UNCHANGED <<products, currentFilter, currentSort>>
    /\ CatalogFrame

\* fetchProducts without its finally block: loading is left as it is
FetchResolve_NoFinally(c) ==
    /\ calls[c] = "pending"
    /\ calls' = [calls EXCEPT ![c] = "done"]
    /\ last' = Call("resolve", "", 0, c)
    /\ UNCHANGED <<products, loading, error, currentFilter, currentSort>>
    /\ CatalogFrame

\* the awaited promise resolves: the finally block, and the call returns
FetchResolve(c) ==
    /\ calls[c] = "pending"
    /\ loading' = FALSE
    /\ calls' = [calls EXCEPT ![c] = "done"]
    /\ last' = Call("resolve", "", 0, c)
    /\ UNCHANGED <<products, error, currentFilter, currentSort>>
    /\ CatalogFrame

\* the request of the layered store fails: the failure is caught, the
\* catalog falls back to the empty list, and the call returns
FetchFail(c) ==
    /\ variant = "layered"
    /\ calls[c] = "pending"
    /\ error' = FetchFailed
    /\ products' = <<>>
    /\ loading' = FALSE
    /\ calls' = [calls EXCEPT ![c] = "done"]
    /\ last' = Call("fail", "", 0, c)
    /\ UNCHANGED <<currentFilter, currentSort>>
    /\ CatalogFrame

NextCatalog ==
    \/ SetFilter
    \/ SetSort
    \/ ResetFilter
    \/ \E c \in CallIds : FetchStart(c)
    \/ \E c \in CallIds : FetchResolve(c)
    \/ \E c \in CallIds : FetchFail(c)

SpecCatalog == InitCatalog /\ [][NextCatalog]_vars

\* every pending call is settled in the end: the timer of the feature store
\* fires, the request of the layered store succeeds or fails
SpecCatalogFair ==
    /\ SpecCatalog
    /\ \A c \in CallIds : WF_vars(FetchResolve(c) \/ FetchFail(c))

\* ================================================================ claims
Indices == 1..Len(items)
MutatingOps == {"addItem", "removeItem", "updateQuantity", "incrementItem",
                "decrementItem", "clearCart"}
LastProduct == [id |-> last.id, price |-> last.price]

\* C1: after any sequence of cart calls from the empty cart every item in
\* the list has quantity >= 1
C1_QuantityAtLeastOne == \A k \in Indices : items[k].quantity >= One

\* C2: after any sequence of cart calls from the empty cart the list holds
\* at most one entry per product id
C2_OneEntryPerId ==
    \A i, j \in Indices : items[i].product.id = items[j].product.id => i = j

C2_Witness ==
    /\ last.op = "addItem" /\ ~threw
    /\ Len(items) = 2
    /\ \E k \in Indices : items[k].product.id = last.id /\ items[k].quantity > One

\* C3: in the stores that keep a subtotal on each item, every item has
\* subtotal = product.price * quantity
C3_SubtotalNeverDrifts ==
    HasSubtotal(variant) =>
        \A k \in Indices : items[k].subtotal = items[k].product.price * items[k].quantity

\* the effect C4 states for addItem(product), between the list before (old)
\* and after (new) the call
AddEffect(old, new, product) ==
    LET i == findIndex(old, product.id) IN
    /\ IF i # 0
       THEN /\ Len(new) = Len(old)
            /\ new[i].quantity = old[i].quantity + One
            /\ \A k \in 1..Len(old) : k # i => new[k] = old[k]
       ELSE /\ Len(new) = Len(old) + 1
            /\ \A k \in 1..Len(old) : new[k] = old[k]
            /\ new[Len(new)].product = product
            /\ new[Len(new)].quantity = One
    \* the same product added a second time to a cart that holds only it
    /\ (/\ Len(old) = 1
        /\ old[1].product = product
        /\ old[1].quantity = One)
       => /\ Len(new) = 1
          /\ new[1].quantity = 2 * One
          /\ HasSubtotal(variant) => new[1].subtotal = product.price * (2 * One)

\* C4 as stated: every addItem(product) call grows the quantity of the item
\* with product.id by 1 and changes nothing else, or appends one new item
\* with quantity 1
C4_AddItemAlwaysAdmits ==
    [][last'.op = "addItem" => AddEffect(items, items', LastProduct')]_vars

\* C4 amended: every addItem(product) call that does not reject the product
\* grows the quantity of the item with product.id by 1 and changes nothing
\* else, or appends one new item with quantity 1; the same product added
\* twice to the empty cart gives one item, quantity 2, subtotal 2 * price
C4_AddItemEffect ==
    [][(last'.op = "addItem" /\ ~threw') => AddEffect(items, items', LastProduct')]_vars

C4_Witness ==
    /\ last.op = "addItem" /\ ~threw
    /\ last.price > 0
    /\ HasSubtotal(variant)
    /\ Len(items) = 1
    /\ items[1].product = LastProduct
    /\ items[1].quantity = 2 * One
    /\ items[1].subtotal = last.price * (2 * One)

\* C5: addItem with a product that violates the Product contract signals an
\* error and leaves the item list as it was
C5_InvalidProductRejected ==
    [][(last'.op = "addItem" /\ ~ProductSchema(LastProduct'))
          => (threw' /\ items' = items)]_vars

ItemSchema(v, it) ==
    IF v = "layered" THEN LayerCartItemSchema(it)
    ELSE "subtotal" \in DOMAIN it /\ CartItemSchema(it)

\* C7: a stored value that does not validate as an array of CartItem never
\* enters the cart: right after initialisation every item of the list is a
\* valid CartItem
C7_MalformedNeverLoaded ==
    last.op \in {"init", "reload"} => \A k \in Indices : ItemSchema(variant, items[k])

IdsAndQuantities(list) ==
    [k \in 1..Len(list) |-> <<list[k].product.id, list[k].quantity>>]

\* C8: persisting the item list and initialising a fresh store from storage
\* gives the same product ids and quantities in the same order
C8_RoundTrip ==
    [][(last'.op = "reload" /\ available /\ storage = JSONstringify(items))
          => IdsAndQuantities(items') = IdsAndQuantities(items)]_vars

\* C9: removeItem(id) applied twice leaves the same list as applied once
C9_RemoveIdempotent ==
    \A id \in Ids :
        removeItem(variant, removeItem(variant, items, id).items, id).items
            = removeItem(variant, items, id).items

AbsentIdOps == {"removeItem", "updateQuantity", "incrementItem", "decrementItem"}

UpdateEffect(old, new, id, q) ==
    LET i == findIndex(old, id) IN
    IF q <= 0
    THEN new = removeItem(variant, old, id).items
    ELSE (q >= One /\ i # 0) =>
            /\ Len(new) = Len(old)
            /\ new[i].product = old[i].product
            /\ new[i].quantity = q
            /\ HasSubtotal(variant) => new[i].subtotal = old[i].product.price * q
            /\ \A k \in 1..Len(old) : k # i => new[k] = old[k]

C12_MalformedQuantityThrows ==
    [][(last'.op = "updateQuantity" /\ last'.qty > 0 /\ ~IsInteger(last'.qty))
          => (threw' /\ items' = items)]_vars

\* the entries of a list that belong to other products than id
Others(list, id) == SelectSeq(list, LAMBDA it : it.product.id # id)

\* the effect C13 states for decrementItem(id) on a cart that holds id
DecrementEffect(old, new, id) ==
    LET i == findIndex(old, id) IN
    i # 0 =>
        /\ old[i].quantity = One =>
               /\ Len(new) < Len(old)
               /\ Others(new, id) = Others(old, id)
        /\ old[i].quantity > One =>
               /\ Len(new) = Len(old)
               /\ new[i].product = old[i].product
               /\ new[i].quantity = old[i].quantity - One
               /\ \A k \in 1..Len(old) : k # i => new[k] = old[k]
        /\ \A k \in 1..Len(new) : new[k].product.id = id => new[k].quantity # 0

\* C13: decrementItem(id) on an item of quantity 1 removes the item; on an
\* item of quantity q > 1 it leaves the item in place with quantity q - 1;
\* the item is never left in the list with quantity 0
C13_DecrementNeverZero ==
    [][last'.op = "decrementItem" => DecrementEffect(items, items', last'.id)]_vars

C13_Witness ==
    /\ last.op = "decrementItem"
    /\ Len(items) = 2
    /\ \E k \in Indices : items[k].product.id = last.id /\ items[k].quantity = One

\* C14: for every product id in the cart, with quantity q, incrementItem(id)
\* gives the result of updateQuantity(id, q + 1) and decrementItem(id) the
\* result of updateQuantity(id, q - 1)
C14_StepIsUpdateQuantity ==
    \A id \in Ids :
        LET i == findIndex(items, id) IN
        i # 0 =>
            /\ incrementItem(variant, items, id)
                   = updateQuantity(variant, items, id, items[i].quantity + One)
            /\ decrementItem(variant, items, id)
                   = updateQuantity(variant, items, id, items[i].quantity - One)

C14_Witness ==
    /\ variant = "layered"
    /\ last.op = "incrementItem"
    /\ \E k \in Indices : items[k].product.id = last.id /\ items[k].quantity = 2 * One

\* C15: right after clearCart the list is empty, isEmpty is true, and
\* itemCount, subtotal, tax and total are all 0
C15_ClearCartEmpties ==
    last.op = "clearCart" =>
        /\ items = <<>>
        /\ isEmpty(items)
        /\ itemCount(items) = 0
        /\ subtotal(variant, items) = 0
        /\ tax(variant, items) = 0
        /\ total(variant, items) = 0

C15_Witness ==
    /\ last.op = "clearCart"
    /\ available
    /\ storage = JsonArray(<<>>)
    /\ isEmpty(items)

\* the sum f[1] + ... + f[n]
RECURSIVE SumTo(_, _)
SumTo(f, n) == IF n = 0 THEN 0 ELSE SumTo(f, n - 1) + f[n]

C17_SubtotalIsPriceTimesQuantity ==
    subtotal(variant, items)
        = SumTo([k \in Indices |-> items[k].product.price * items[k].quantity],
                Len(items))

\* C18: for every whole subtotal >= 0 the tax is the tenth of the subtotal
\* rounded to the nearest whole amount, a half going up (1999 -> 200,
\* 10 -> 1, 0 -> 0), and total = subtotal + tax
C18_TaxRoundsHalfUp ==
    /\ calc.stage \in {"tax", "total"} =>
          LET n == calc.subtotal \div One
              t == calc.tax \div One
          IN /\ calc.tax = t * One
             /\ 10 * t <= n + 5 /\ n + 5 < 10 * t + 10
             /\ n = 1999 => t = 200
             /\ n = 10 => t = 1
             /\ n = 0 => t = 0
    /\ calc.stage = "total" => calc.total = calc.subtotal + calc.tax

C18_Witness ==
    /\ calc.stage = "total"
    /\ calc.subtotal = 1999 * One
    /\ calc.tax = 200 * One
    /\ calc.total = 2199 * One

\* the products a list stores
StoredProducts(list) == {list[k].product : k \in 1..Len(list)}

\* C19: the product stored in an item stays as it was when the item was
\* added: addItem(p) for an id in the cart leaves that item's product (its
\* price included) as it was, whatever p holds, and no call or reload puts a
\* product into the list that was not there, but addItem(p) for a new id
C19_ProductIsSnapshot ==
    [][LET i == findIndex(items, last'.id) IN
       /\ (last'.op = "addItem" /\ i # 0) =>
              /\ Len(items') = Len(items)
              /\ \A k \in Indices : items'[k].product = items[k].product
       /\ StoredProducts(items') \subseteq
              StoredProducts(items) \cup
                 (IF last'.op = "addItem" /\ i = 0 THEN {LastProduct'} ELSE {})]_vars

C19_Witness ==
    /\ last.op = "addItem" /\ ~threw
    /\ \E k \in Indices :
          /\ items[k].product.id = last.id
          /\ items[k].product.price # last.price
          /\ items[k].quantity = 2 * One

\* C20: storage failures never reach the caller.  With localStorage
\* unavailable (or its writes throwing) setItem changes nothing and getItem
\* returns null; a stored text that does not parse reads as null; the store
\* constructed over such a storage starts from the empty list without an
\* error; and the only calls that throw are the validating addItem and
\* updateQuantity rejecting their argument
C20_StorageFailuresSwallowed ==
    [][/\ ~available =>
             /\ storage' = storage
             /\ setItem(available, storage, items') = storage
             /\ ~getItem(available, storage).found
       /\ storage.kind = "garbage" => ~getItem(available, storage).found
       /\ (last'.op = "reload" /\ (~available \/ storage.kind = "garbage")) =>
             (items' = <<>> /\ ~threw')
       /\ threw' =>
             /\ ValidatesInput(variant)
             /\ items' = items
             /\ \/ last'.op = "addItem" /\ ~ProductSchema(LastProduct')
                \/ last'.op = "updateQuantity" /\ ~IsInteger(last'.qty)]_vars

C20_Witness ==
    /\ ~available
    /\ storage = Garbage
    /\ last.op = "addItem" /\ ~threw
    /\ Len(items) = 2

Pending == {c \in CallIds : calls[c] = "pending"}

\* C21: whenever at least one fetchProducts call is pending, loading is
\* true; and every fetchProducts call starts by setting error to null
C21_LoadingWhilePending ==
    [][/\ Pending' # {} => loading'
       /\ last'.op = "fetchProducts" => error' = Null]_vars

C23_ResetFilterRestoresDefaults ==
    [][last'.op = "resetFilter" =>
          /\ DOMAIN currentFilter' = {"category", "inStock"}
          /\ currentFilter'.category = "all"
          /\ currentFilter'.inStock = FALSE
          /\ currentSort' = "name-asc"
          /\ UNCHANGED <<products, loading, error>>]_vars

C23_Witness ==
    /\ last.op = "resetFilter"
    /\ Pending # {}
    /\ error = FetchFailed
    /\ currentFilter = DefaultFilter /\ currentSort = "name-asc"

Range(list) == {list[k] : k \in 1..Len(list)}
Shown == filteredProducts(products, currentFilter, currentSort)

\* C24: filteredProducts is a permutation of exactly the products that pass
\* the current filter; under every other sort it holds the same products;
\* and setFilter, setSort and resetFilter leave the product list as it is
C24_FilterThenSort ==
    /\ [](/\ Len(Shown) = Len(filterProducts(products, currentFilter))
          /\ Range(Shown) = Range(filterProducts(products, currentFilter))
          /\ \A sort \in ProductSort :
                Range(filteredProducts(products, currentFilter, sort)) = Range(Shown))
    /\ [][last'.op \in {"setFilter", "setSort", "resetFilter"}
             => products' = products]_vars

C24_Witness ==
    /\ last.op = "setSort" /\ currentSort = "price-desc"
    /\ currentFilter = [category |-> "books"]
    /\ products = MOCK_PRODUCTS
    /\ Shown = <<Ban, Ann>>

C26_PriceRangeAccepted ==
    calc.stage = "parsed" =>
        /\ calc.success <=>
              /\ calc.min % Scale = 0 /\ calc.min >= 0
              /\ calc.max % Scale = 0 /\ calc.max >= One
              /\ calc.max - calc.min > 0
        /\ calc.min = calc.max => ~calc.success
        /\ calc.min > calc.max => ~calc.success

C26_Witness ==
    /\ calc.stage = "parsed"
    /\ calc.min = 0 /\ calc.max = One
    /\ calc.success

\* C27: every list the store initialisation accepts from storage through
\* validation holds at most one entry per product id, and so does every
\* list reached from it by cart calls
C27_AcceptedListHasNoDuplicates ==
    ValidatesStorage(variant) =>
        \A i \in Indices : \A j \in Indices \ {i} :
            items[i].product.id # items[j].product.id

\* C28: given the same calls from the empty cart, the layered store and the
\* feature store hold the same ordered list of (product id, quantity)
C28_SameIdsAndQuantities ==
    /\ IdsAndQuantities(items) = IdsAndQuantities(twin)
    /\ ~threw

C28_Witness ==
    /\ last.op = "decrementItem"
    /\ Len(items) = 2 /\ Len(twin) = 2
    /\ items[1].product.id = "p2" /\ twin[1].product.id = "p2"
    /\ items[2].quantity = One /\ twin[2].quantity = One
    /\ "subtotal" \in DOMAIN items[1] /\ "subtotal" \notin DOMAIN twin[1]

IdSeq(list) == [k \in 1..Len(list) |-> list[k].product.id]

\* a is b with some of its entries left out, the others in their order
RECURSIVE isSubsequence(_, _)
isSubsequence(a, b) ==
    IF a = <<>> THEN TRUE
    ELSE IF b = <<>> THEN FALSE
    ELSE IF Head(a) = Head(b) THEN isSubsequence(Tail(a), Tail(b))
    ELSE isSubsequence(a, Tail(b))

\* the calls that remove: removeItem, updateQuantity with q <= 0, and
\* decrementItem on a quantity of at most 1
Removes(call, old) ==
    LET i == findIndex(old, call.id) IN
    \/ call.op = "removeItem"
    \/ call.op = "updateQuantity" /\ call.qty <= 0
    \/ call.op = "decrementItem" /\ i # 0 /\ old[i].quantity <= One

\* C29: cart calls preserve the order of the items: addItem for a new id
\* appends at the end; addItem, updateQuantity, incrementItem and
\* decrementItem on an item that stays keep every item at its position; a
\* removal keeps the remaining items in their order
C29_OrderPreserved ==
    [][(last'.op \in AbsentIdOps \cup {"addItem"} /\ ~threw') =>
          LET i == findIndex(items, last'.id) IN
          IF Removes(last', items)
          THEN /\ isSubsequence(items', items)
               /\ Others(items', last'.id) = Others(items, last'.id)
          ELSE IF i = 0 /\ last'.op = "addItem"
          THEN IdSeq(items') = Append(IdSeq(items), last'.id)
          ELSE IdSeq(items') = IdSeq(items)]_vars

C29_Witness ==
    /\ last.op = "addItem" /\ ~threw
    /\ Len(items) = 2
    /\ items[1].quantity = 2 * One
    /\ items[2].product.id = last.id /\ items[2].quantity = One

\* C30: in every state reached from the empty cart, isEmpty is true exactly
\* when itemCount is 0, and itemInCart(id) returns an item exactly when an
\* item with that product id is in the list
C30_GettersAgreeWithList ==
    /\ isEmpty(items) <=> itemCount(items) = 0
    /\ \A id \in Ids :
          /\ itemInCart(items, id).found <=> \E k \in Indices : items[k].product.id = id
          /\ itemInCart(items, id).found => itemInCart(items, id).item.product.id = id

C30_Witness ==
    /\ last.op \in MutatingOps
    /\ Len(items) = 1
    /\ items[1].product.id = "p2"
    /\ itemInCart(items, "p2").found /\ ~itemInCart(items, "p1").found
    /\ ~isEmpty(items) /\ itemCount(items) = One

====
